---- MODULE Spec2Model ----
(***************************************************************************)
(* Model of dbt/schema_tester.py: the SchemaTester that compiles declared  *)
(* constraints (not_null, unique, relationships) into scalar SQL           *)
(* statements, executes them and walks all models as a generator.          *)
(*                                                                         *)
(* Two specifications share the module:                                    *)
(*   Spec     the generator validate_schema / test driven by a consumer,   *)
(*            with the warehouse answering each statement;                 *)
(*   SpecSQL  the three SQL statements evaluated over concrete columns.    *)
(*                                                                         *)
(* Language level: the source is Python 2 (it reads e.message of a caught  *)
(* exception, an attribute every Python 2 BaseException has), so the       *)
(* except clause's print always succeeds and NotImplementedError is a      *)
(* subclass of RuntimeError.                                               *)
(***************************************************************************)
EXTENDS Integers, Sequences, FiniteSets, TLC

\* ------------------------------------------------------------- bounds
MaxModels == 2        \* models in the schema snapshot
MaxEntries == 2       \* payload entries declared in the whole snapshot
MaxCount == 1         \* the violation count of a failing check
MaxRows == 3          \* rows of a column (SpecSQL)
MaxVal == 2           \* distinct non-null values of a column (SpecSQL)

VARIABLES
    schemas,      \* the snapshot: sequence of [model, constraints] in iteration order
    compiler,     \* compiler.get_model_config(...)['enabled'], per snapshot position
    target_type,  \* project.run_environment()['type']
    warehouse,    \* what the warehouse answers to each statement executed so far
    pc,           \* position of the generator
    consumer,     \* state of the caller iterating test()
    mi, ci, ei,   \* loop positions: model, constraint-type, payload entry
    sql,          \* the statement of the current check
    handle,       \* TRUE while a connection handle is held
    cursor,       \* TRUE while a cursor is held
    result,       \* the row fetchone returned
    num_rows,     \* the scalar execute_query returned
    exc,          \* the exception in flight (NoExc when none)
    trace,        \* observable events in order: collaborator calls and printed lines
    yielded,      \* the items the consumer has received
    runs,         \* what the earlier calls of test() printed, yielded and ended with
    db,           \* SpecSQL: column contents
    sql_op,       \* SpecSQL: the statement evaluated last
    sql_result    \* SpecSQL: its scalar result

vars == <<schemas, compiler, target_type, warehouse, pc, consumer, mi, ci, ei, sql,
          handle, cursor, result, num_rows, exc, trace, yielded, runs, db, sql_op,
          sql_result>>

runvars == <<schemas, compiler, target_type, warehouse, pc, consumer, mi, ci, ei, sql,
             handle, cursor, result, num_rows, exc, trace, yielded>>

sqlvars == <<db, sql_op, sql_result>>

\* ------------------------------------------------------------- the statements
QUERY_VALIDATE_NOT_NULL == "QUERY_VALIDATE_NOT_NULL"
QUERY_VALIDATE_UNIQUE == "QUERY_VALIDATE_UNIQUE"
QUERY_VALIDATE_REFERENTIAL_INTEGRITY == "QUERY_VALIDATE_REFERENTIAL_INTEGRITY"

\* target_cfg['schema'] of the run environment
TargetSchema == "analytics"

\* get_query_params: the parameters of a not-null / uniqueness statement
get_query_params(table, field) ==
    [schema |-> TargetSchema, table |-> table, field |-> field]

\* the parameters validate_relationships builds for one reference: the model's own
\* table and reference['from'] go to the parent slots, reference['to'] and
\* reference['field'] to the child slots
relationships_params(table, reference) ==
    [schema |-> TargetSchema,
     parent_table |-> table, parent_field |-> reference.from,
     child_table |-> reference.to, child_field |-> reference.field]

\* make_query: query.format(**params); the statement text is the template with each
\* slot filled, kept as the sequence <<template, slot values in template order>>
make_query(query, params) ==
    IF query = QUERY_VALIDATE_REFERENTIAL_INTEGRITY
    THEN <<query, params.parent_field, params.schema, params.parent_table,
           params.child_field, params.schema, params.child_table>>
    ELSE <<query, params.field, params.schema, params.table>>

\* ------------------------------------------------------------- exceptions
NoModel == <<>>
NoExc == [type |-> "none", text |-> "none", msg_model |-> NoModel, model |-> NoModel]

\* an exception object: its class, its message, the model its message names and the
\* model attribute attached to it (e.model), if any
Exception(type, text, msg_model, attr_model) ==
    [type |-> type, text |-> text, msg_model |-> msg_model, model |-> attr_model]

\* the classes `except RuntimeError` matches: RuntimeError and its subclasses
RuntimeErrorClasses == {"RuntimeError", "NotImplementedError"}

\* the classes cursor.execute may raise: a driver error (not a RuntimeError) or a
\* RuntimeError
DriverErrorClasses == {"DatabaseError", "RuntimeError"}

\* ------------------------------------------------------------- the snapshot
ConstraintTypes == {"not_null", "unique", "relationships", "not_a_real_constraint"}
constraint_map == {"not_null", "unique", "relationships"}

FieldNames == <<"id", "email", "name", "phone">>
ModelIdents == <<<<"core", "orders">>, <<"core", "items">>, <<"marts", "orders">>,
                 <<"marts", "users">>>>
RefTable == "customers"
RefField == "key"

\* constraint_data of n entries: field names, or reference descriptors
ConstraintData(type, n) ==
    IF type = "relationships"
    THEN [k \in 1..n |-> [from |-> FieldNames[k], to |-> RefTable, field |-> RefField]]
    ELSE [k \in 1..n |-> FieldNames[k]]

RECURSIVE ConstraintSeqs(_, _)
\* the ordered constraint mappings one model may declare with at most ne payload
\* entries: distinct tags outside `used`, each with at least one entry
ConstraintSeqs(used, ne) ==
    {<<>>} \cup
    UNION { UNION { { <<[type |-> t, data |-> ConstraintData(t, n)]>> \o rest :
                      rest \in ConstraintSeqs(used \cup {t}, ne - n) } :
                    n \in 1..ne } :
            t \in ConstraintTypes \ used }

RECURSIVE NumEntries(_)
\* the payload entries a constraint mapping declares
NumEntries(cs) == IF cs = <<>> THEN 0 ELSE Len(cs[1].data) + NumEntries(Tail(cs))

RECURSIVE SchemaSeqs(_, _, _)
\* the snapshots: models i, i+1, ... (at most nm of them) declaring at most ne
\* payload entries together
SchemaSeqs(i, nm, ne) ==
    {<<>>} \cup
    IF nm = 0 THEN {}
    ELSE UNION { { <<[model |-> ModelIdents[i], constraints |-> cs]>> \o rest :
                   rest \in SchemaSeqs(i + 1, nm - 1, ne - NumEntries(cs)) } :
                 cs \in ConstraintSeqs({}, ne) }

SchemaSet == SchemaSeqs(1, MaxModels, MaxEntries)

\* ------------------------------------------------------------- the warehouse
\* what one execution of a statement meets: no connection, a failing execute, a
\* failing fetchone, no row, or a row of ncols columns whose first column is count
\* (no violation, or MaxCount of them)
Outcomes ==
    {[kind |-> "connect_error", type |-> "OperationalError", ncols |-> 0, count |-> 0]}
    \cup {[kind |-> "execute_error", type |-> t, ncols |-> 0, count |-> 0] :
            t \in DriverErrorClasses}
    \cup {[kind |-> "fetch_error", type |-> "ProgrammingError", ncols |-> 0, count |-> 0]}
    \cup {[kind |-> "no_row", type |-> "none", ncols |-> 0, count |-> 0]}
    \cup {[kind |-> "row", type |-> "none", ncols |-> 0, count |-> 0]}
    \cup {[kind |-> "row", type |-> "none", ncols |-> 1, count |-> c] : c \in {0, MaxCount}}
    \cup {[kind |-> "row", type |-> "none", ncols |-> 2, count |-> 0]}

NoRow == [kind |-> "none", ncols |-> 0, count |-> 0]
NoSql == <<>>

\* ------------------------------------------------------------- events
\* an observable event: a collaborator call ("get_model_config", "execute"), a
\* dispatch, a printed line ("print") or a yield, with the loop position it belongs to
Event(ev, text, m, c, e, count, err) ==
    [ev |-> ev, text |-> text, model |-> m, ci |-> c, ei |-> e, count |-> count, err |-> err]

CurModel == schemas[mi].model
CurConstraints == schemas[mi].constraints
CurType == CurConstraints[ci].type
CurData == CurConstraints[ci].data

\* ------------------------------------------------------------- Init
Init ==
    /\ schemas \in SchemaSet
    /\ compiler \in [1..Len(schemas) -> BOOLEAN]
    /\ target_type \in {"redshift", "postgres"}
    /\ warehouse = <<>>
    /\ pc = "start"
    /\ consumer = "idle"
    /\ mi = 1 /\ ci = 1 /\ ei = 1
    /\ sql = NoSql
    /\ handle = FALSE /\ cursor = FALSE
    /\ result = NoRow
    /\ num_rows = 0
    /\ exc = NoExc
    /\ trace = <<>>
    /\ yielded = <<>>
    /\ runs = <<>>
    /\ db = <<>> /\ sql_op = "none" /\ sql_result = 0

\* ------------------------------------------------------------- the consumer
\* the caller asks test() for the next item: the generator starts or resumes after
\* its yield, going on to the next constraint-type
ConsumerNext ==
    /\ consumer = "idle"
    /\ pc \in {"start", "suspended"}
    /\ consumer' = "waiting"
    /\ pc' = IF pc = "start" THEN "model" ELSE "constraint"
    /\ ci' = IF pc = "start" THEN ci ELSE ci + 1
    /\ UNCHANGED <<schemas, compiler, target_type, warehouse, mi, ei, sql, handle, cursor,
                   result, num_rows, exc, trace, yielded>>
    /\ UNCHANGED <<runs, sqlvars>>

\* the caller abandons the sequence instead of asking for more
ConsumerStop ==
    /\ consumer = "idle"
    /\ pc \in {"start", "suspended"}
    /\ consumer' = "stopped"
    /\ UNCHANGED <<schemas, compiler, target_type, warehouse, pc, mi, ci, ei, sql, handle,
                   cursor, result, num_rows, exc, trace, yielded>>
    /\ UNCHANGED <<runs, sqlvars>>

\* ------------------------------------------------------------- validate_schema
\* NextModel without the enabled test: every model's constraints are walked
NextModel_no_enabled_test ==
    /\ pc = "model"
    /\ IF mi > Len(schemas)
       THEN /\ pc' = "finished"
            /\ consumer' = "done"
            /\ UNCHANGED <<mi, ci, trace>>
       ELSE /\ trace' = Append(trace, Event("get_model_config", "", CurModel, 0, 0, 0, NoExc))
            /\ pc' = "constraint" /\ ci' = 1 /\ mi' = mi
            /\ UNCHANGED consumer
    /\ UNCHANGED <<schemas, compiler, target_type, warehouse, ei, sql, handle, cursor,
                   result, num_rows, exc, yielded>>
    /\ UNCHANGED <<runs, sqlvars>>

\* the two for-loops over model groups and models, get_model_config and the
\* enabled test: a disabled model is skipped, the end of the snapshot ends the
\* generator
NextModel ==
    /\ pc = "model"
    /\ IF mi > Len(schemas)
       THEN /\ pc' = "finished"
            /\ consumer' = "done"
            /\ UNCHANGED <<mi, ci, trace>>
       ELSE /\ trace' = Append(trace, Event("get_model_config", "", CurModel, 0, 0, 0, NoExc))
            /\ IF compiler[mi]
               THEN pc' = "constraint" /\ ci' = 1 /\ mi' = mi
               ELSE pc' = "model" /\ ci' = ci /\ mi' = mi + 1
            /\ UNCHANGED consumer
    /\ UNCHANGED <<schemas, compiler, target_type, warehouse, ei, sql, handle, cursor,
                   result, num_rows, exc, yielded>>
    /\ UNCHANGED <<runs, sqlvars>>

\* the loop over constraints left after its first item
NextConstraint_first_only ==
    /\ pc = "constraint"
    /\ IF ci > 1 \/ ci > Len(CurConstraints)
       THEN pc' = "model" /\ mi' = mi + 1
       ELSE pc' = "dispatch" /\ mi' = mi
    /\ UNCHANGED <<schemas, compiler, target_type, warehouse, consumer, ci, ei, sql, handle,
                   cursor, result, num_rows, exc, trace, yielded>>
    /\ UNCHANGED <<runs, sqlvars>>

\* the for-loop over constraints.items(): the next constraint-type enters the try
\* block, the end of the mapping goes on to the next model
NextConstraint ==
    /\ pc = "constraint"
    /\ IF ci > Len(CurConstraints)
       THEN pc' = "model" /\ mi' = mi + 1
       ELSE pc' = "dispatch" /\ mi' = mi
    /\ UNCHANGED <<schemas, compiler, target_type, warehouse, consumer, ci, ei, sql, handle,
                   cursor, result, num_rows, exc, trace, yielded>>
    /\ UNCHANGED <<runs, sqlvars>>

\* validate_schema_constraint: the handler of the tag is called, a tag outside
\* constraint_map raises RuntimeError naming the tag and the model
validate_schema_constraint ==
    /\ pc = "dispatch"
    /\ trace' = Append(trace, Event("dispatch", CurType, CurModel, ci, 0, 0, NoExc))
    /\ IF CurType \in constraint_map
       THEN pc' = "validator" /\ ei' = 1 /\ exc' = exc
       ELSE /\ pc' = "unwind"
            /\ exc' = Exception("RuntimeError", "Invalid constraint", CurModel, NoModel)
            /\ ei' = ei
    /\ UNCHANGED <<schemas, compiler, target_type, warehouse, consumer, mi, ci, sql, handle,
                   cursor, result, num_rows, yielded>>
    /\ UNCHANGED <<runs, sqlvars>>

\* ------------------------------------------------------------- the handlers
\* the statement a handler builds for one payload entry of a model; the table is
\* model[-1], the model name
EntrySql(model, type, entry) ==
    IF type = "relationships"
    THEN make_query(QUERY_VALIDATE_REFERENTIAL_INTEGRITY,
                    relationships_params(model[2], entry))
    ELSE make_query(IF type = "unique" THEN QUERY_VALIDATE_UNIQUE
                    ELSE QUERY_VALIDATE_NOT_NULL,
                    get_query_params(model[2], entry))

\* the payload taken from its last entry to its first
Validator_reversed(type, header) ==
    /\ pc \in {"validator", "report"}
    /\ CurType = type
    /\ \/ /\ pc = "validator"
          /\ IF ei > Len(CurData)
             THEN pc' = "yield" /\ sql' = sql /\ trace' = trace
             ELSE /\ pc' = "get_target"
                  /\ sql' = EntrySql(CurModel, type, CurData[Len(CurData) + 1 - ei])
                  /\ trace' = Append(trace, Event("print", header, CurModel, ci,
                                                  Len(CurData) + 1 - ei, 0, NoExc))
          /\ ei' = ei
       \/ /\ pc = "report"
          /\ trace' = Append(trace,
                        IF num_rows = 0
                        THEN Event("print", "OK", CurModel, ci, Len(CurData) + 1 - ei, 0, NoExc)
                        ELSE Event("print", "FAILED", CurModel, ci, Len(CurData) + 1 - ei,
                                   num_rows, NoExc))
          /\ ei' = ei + 1
          /\ pc' = "validator"
          /\ sql' = sql
    /\ UNCHANGED <<schemas, compiler, target_type, warehouse, consumer, mi, ci, handle,
                   cursor, result, num_rows, exc, yielded>>
    /\ UNCHANGED <<runs, sqlvars>>

\* the body all three handlers share. At the loop head the next entry's statement is
\* built and its VALIDATE line printed before execute_query is called; when the
\* payload is exhausted the handler returns into the try block, at the yield. After
\* execute_query returned a scalar, OK is printed for 0 and FAILED (n) otherwise.
Validator(type, header) ==
    /\ pc \in {"validator", "report"}
    /\ CurType = type
    /\ \/ /\ pc = "validator"
          /\ IF ei > Len(CurData)
             THEN pc' = "yield" /\ sql' = sql /\ trace' = trace
             ELSE /\ pc' = "get_target"
                  /\ sql' = EntrySql(CurModel, type, CurData[ei])
                  /\ trace' = Append(trace, Event("print", header, CurModel, ci, ei, 0, NoExc))
          /\ ei' = ei
       \/ /\ pc = "report"
          /\ trace' = Append(trace,
                        IF num_rows = 0
                        THEN Event("print", "OK", CurModel, ci, ei, 0, NoExc)
                        ELSE Event("print", "FAILED", CurModel, ci, ei, num_rows, NoExc))
          /\ ei' = ei + 1
          /\ pc' = "validator"
          /\ sql' = sql
    /\ UNCHANGED <<schemas, compiler, target_type, warehouse, consumer, mi, ci, handle,
                   cursor, result, num_rows, exc, yielded>>
    /\ UNCHANGED <<runs, sqlvars>>

validate_not_null == Validator("not_null", "VALIDATE NOT NULL")

validate_unique == Validator("unique", "VALIDATE UNIQUE")

validate_relationships == Validator("relationships", "VALIDATE REFERENTIAL INTEGRITY")

\* ------------------------------------------------------------- execute_query
\* get_target: only a redshift target exists, any other type raises
\* NotImplementedError, before a handle is asked for
get_target ==
    /\ pc = "get_target"
    /\ IF target_type = "redshift"
       THEN pc' = "get_handle" /\ exc' = exc
       ELSE /\ pc' = "unwind"
            /\ exc' = Exception("NotImplementedError", "Unknown target type", NoModel, NoModel)
    /\ UNCHANGED <<schemas, compiler, target_type, warehouse, consumer, mi, ci, ei, sql,
                   handle, cursor, result, num_rows, trace, yielded>>
    /\ UNCHANGED <<runs, sqlvars>>

\* a statement the warehouse has answered with one scalar before is not executed
\* again: the scalar is taken from the earlier answer
get_handle_cached ==
    /\ pc = "get_handle"
    /\ IF sql \in DOMAIN warehouse /\ warehouse[sql].kind = "row" /\ warehouse[sql].ncols = 1
       THEN /\ pc' = "report"
            /\ num_rows' = warehouse[sql].count
            /\ UNCHANGED <<warehouse, exc, handle>>
       ELSE /\ \E o \in (IF sql \in DOMAIN warehouse THEN {warehouse[sql]} ELSE Outcomes) :
                /\ warehouse' = IF sql \in DOMAIN warehouse THEN warehouse
                                ELSE warehouse @@ (sql :> o)
                /\ IF o.kind = "connect_error"
                   THEN /\ pc' = "unwind"
                        /\ exc' = Exception(o.type, "could not connect", NoModel, NoModel)
                        /\ handle' = handle
                   ELSE pc' = "cursor" /\ exc' = exc /\ handle' = TRUE
            /\ num_rows' = num_rows
    /\ UNCHANGED <<schemas, compiler, target_type, consumer, mi, ci, ei, sql, cursor, result,
                   trace, yielded>>
    /\ UNCHANGED <<runs, sqlvars>>

\* what the warehouse answers to the current statement: as before if the statement
\* was met already, anything otherwise
Answers == IF sql \in DOMAIN warehouse THEN {warehouse[sql]} ELSE Outcomes

\* target.get_handle() entered by the outer with: the handle is held from here, or
\* the connection fails and nothing is held
get_handle ==
    /\ pc = "get_handle"
    /\ \E o \in Answers :
        /\ warehouse' = IF sql \in DOMAIN warehouse THEN warehouse ELSE warehouse @@ (sql :> o)
        /\ IF o.kind = "connect_error"
           THEN /\ pc' = "unwind"
                /\ exc' = Exception(o.type, "could not connect", NoModel, NoModel)
                /\ handle' = handle
           ELSE pc' = "cursor" /\ exc' = exc /\ handle' = TRUE
    /\ UNCHANGED <<schemas, compiler, target_type, consumer, mi, ci, ei, sql, cursor, result,
                   num_rows, trace, yielded>>
    /\ UNCHANGED <<runs, sqlvars>>

\* handle.cursor() entered by the inner with
open_cursor ==
    /\ pc = "cursor"
    /\ cursor' = TRUE
    /\ pc' = "execute"
    /\ UNCHANGED <<schemas, compiler, target_type, warehouse, consumer, mi, ci, ei, sql,
                   handle, result, num_rows, exc, trace, yielded>>
    /\ UNCHANGED <<runs, sqlvars>>

\* cursor.execute(sql) inside try / except Exception: any exception gets the model
\* attached (e.model = model) and is raised again, out of both with blocks
execute ==
    /\ pc = "execute"
    /\ trace' = Append(trace, Event("execute", sql[1], CurModel, ci, ei, 0, NoExc))
    /\ IF warehouse[sql].kind = "execute_error"
       THEN /\ exc' = Exception(warehouse[sql].type, "statement failed", NoModel, CurModel)
            /\ pc' = "exit_cursor"
       ELSE exc' = exc /\ pc' = "fetchone"
    /\ UNCHANGED <<schemas, compiler, target_type, warehouse, consumer, mi, ci, ei, sql,
                   handle, cursor, result, num_rows, yielded>>
    /\ UNCHANGED <<runs, sqlvars>>

\* result = cursor.fetchone(): a row, None when there is no row, or an exception of
\* the driver
fetchone ==
    /\ pc = "fetchone"
    /\ IF warehouse[sql].kind = "fetch_error"
       THEN /\ exc' = Exception(warehouse[sql].type, "fetch failed", NoModel, NoModel)
            /\ pc' = "exit_cursor"
            /\ result' = result
       ELSE /\ result' = IF warehouse[sql].kind = "no_row" THEN NoRow
                         ELSE [kind |-> "row", ncols |-> warehouse[sql].ncols,
                               count |-> warehouse[sql].count]
            /\ pc' = "check_result"
            /\ exc' = exc
    /\ UNCHANGED <<schemas, compiler, target_type, warehouse, consumer, mi, ci, ei, sql,
                   handle, cursor, num_rows, trace, yielded>>
    /\ UNCHANGED <<runs, sqlvars>>

\* result[0] returned without the test of the row's width
check_result_unchecked ==
    /\ pc = "check_result"
    /\ IF result.kind = "none"
       THEN /\ exc' = Exception("TypeError", "object of type NoneType has no len", NoModel, NoModel)
            /\ UNCHANGED <<num_rows, trace>>
       ELSE /\ num_rows' = result.count
            /\ UNCHANGED <<exc, trace>>
    /\ pc' = "exit_cursor"
    /\ UNCHANGED <<schemas, compiler, target_type, warehouse, consumer, mi, ci, ei, sql,
                   handle, cursor, result, yielded>>
    /\ UNCHANGED <<runs, sqlvars>>

\* if len(result) != 1: len(None) raises TypeError, a row of another width prints the
\* statement and raises RuntimeError, a row of one column is returned as result[0]
check_result ==
    /\ pc = "check_result"
    /\ IF result.kind = "none"
       THEN /\ exc' = Exception("TypeError", "object of type NoneType has no len", NoModel, NoModel)
            /\ UNCHANGED <<num_rows, trace>>
       ELSE IF result.ncols # 1
       THEN /\ exc' = Exception("RuntimeError", "Unexpected validation result", NoModel, NoModel)
            /\ trace' = trace \o <<Event("print", "SQL", CurModel, ci, ei, 0, NoExc),
                                   Event("print", "RESULT", CurModel, ci, ei, 0, NoExc)>>
            /\ UNCHANGED num_rows
       ELSE /\ num_rows' = result.count
            /\ UNCHANGED <<exc, trace>>
    /\ pc' = "exit_cursor"
    /\ UNCHANGED <<schemas, compiler, target_type, warehouse, consumer, mi, ci, ei, sql,
                   handle, cursor, result, yielded>>
    /\ UNCHANGED <<runs, sqlvars>>

\* what __exit__ of the connection handle and of the cursor leave behind: the scoped
\* resource is released (spec, 4.2 Execution Adapter)
Released == FALSE

\* leaving `with handle.cursor() as cursor`, by return or by exception
exit_cursor ==
    /\ pc = "exit_cursor"
    /\ cursor' = Released
    /\ pc' = "exit_handle"
    /\ UNCHANGED <<schemas, compiler, target_type, warehouse, consumer, mi, ci, ei, sql,
                   handle, result, num_rows, exc, trace, yielded>>
    /\ UNCHANGED <<runs, sqlvars>>

\* the handle kept open after a check that returned, for the checks to come
exit_handle_kept ==
    /\ pc = "exit_handle"
    /\ handle' = IF exc = NoExc THEN handle ELSE Released
    /\ pc' = IF exc = NoExc THEN "report" ELSE "unwind"
    /\ UNCHANGED <<schemas, compiler, target_type, warehouse, consumer, mi, ci, ei, sql,
                   cursor, result, num_rows, exc, trace, yielded>>
    /\ UNCHANGED <<runs, sqlvars>>

\* the handle closed at the end of the block only, without a with: an exception
\* leaves it held
exit_handle_leak ==
    /\ pc = "exit_handle"
    /\ handle' = IF exc = NoExc THEN Released ELSE handle
    /\ pc' = IF exc = NoExc THEN "report" ELSE "unwind"
    /\ UNCHANGED <<schemas, compiler, target_type, warehouse, consumer, mi, ci, ei, sql,
                   cursor, result, num_rows, exc, trace, yielded>>
    /\ UNCHANGED <<runs, sqlvars>>

\* leaving `with target.get_handle() as handle`: execute_query returns its scalar to
\* the handler, or its exception goes up through handler and dispatcher
exit_handle ==
    /\ pc = "exit_handle"
    /\ handle' = Released
    /\ pc' = IF exc = NoExc THEN "report" ELSE "unwind"
    /\ UNCHANGED <<schemas, compiler, target_type, warehouse, consumer, mi, ci, ei, sql,
                   cursor, result, num_rows, exc, trace, yielded>>
    /\ UNCHANGED <<runs, sqlvars>>

\* ------------------------------------------------------------- the try block
\* a yield for passing constraint-types only: nothing is handed over when the last
\* check counted violations
yield_model_if_passed ==
    /\ pc = "yield"
    /\ yielded' = IF num_rows = 0 THEN Append(yielded, CurModel) ELSE yielded
    /\ trace' = Append(trace, Event("yield", CurType, CurModel, ci, 0, 0, NoExc))
    /\ pc' = "suspended"
    /\ consumer' = "idle"
    /\ UNCHANGED <<schemas, compiler, target_type, warehouse, mi, ci, ei, sql, handle,
                   cursor, result, num_rows, exc>>
    /\ UNCHANGED <<runs, sqlvars>>

\* the identifier kept in a list that is returned when the loops end, in the place
\* of the yield: nothing is handed over and the loop goes on
yield_model_collected ==
    /\ pc = "yield"
    /\ ci' = ci + 1
    /\ pc' = "constraint"
    /\ UNCHANGED <<schemas, compiler, target_type, warehouse, consumer, mi, ei, sql, handle,
                   cursor, result, num_rows, exc, trace, yielded>>
    /\ UNCHANGED <<runs, sqlvars>>

\* the identifier handed over without suspending: the generator runs ahead of its
\* consumer
yield_model_eager ==
    /\ pc = "yield"
    /\ yielded' = Append(yielded, CurModel)
    /\ trace' = Append(trace, Event("yield", CurType, CurModel, ci, 0, 0, NoExc))
    /\ ci' = ci + 1
    /\ pc' = "constraint"
    /\ consumer' = "idle"
    /\ UNCHANGED <<schemas, compiler, target_type, warehouse, mi, ei, sql, handle,
                   cursor, result, num_rows, exc>>
    /\ UNCHANGED <<runs, sqlvars>>

\* yield model: the dispatch returned, the consumer receives the identifier and the
\* generator is suspended
yield_model ==
    /\ pc = "yield"
    /\ yielded' = Append(yielded, CurModel)
    /\ trace' = Append(trace, Event("yield", CurType, CurModel, ci, 0, 0, NoExc))
    /\ pc' = "suspended"
    /\ consumer' = "idle"
    /\ UNCHANGED <<schemas, compiler, target_type, warehouse, mi, ci, ei, sql, handle,
                   cursor, result, num_rows, exc>>
    /\ UNCHANGED <<runs, sqlvars>>

\* an except clause naming the subclass only
Caught_narrow(e) == e.type = "NotImplementedError"

\* except Exception in the place of except RuntimeError
Caught_any(e) == e.type # "none"

\* the classes the except clause of validate_schema matches
Caught(e) == e.type \in RuntimeErrorClasses

\* except RuntimeError as e: the message is printed and the loop goes on with the
\* next constraint-type
catch ==
    /\ pc = "unwind"
    /\ Caught(exc)
    /\ trace' = Append(trace, Event("print", "ERRROR", CurModel, ci, 0, 0, exc))
    /\ exc' = NoExc
    /\ ci' = ci + 1
    /\ pc' = "constraint"
    /\ UNCHANGED <<schemas, compiler, target_type, warehouse, consumer, mi, ei, sql, handle,
                   cursor, result, num_rows, yielded>>
    /\ UNCHANGED <<runs, sqlvars>>

\* any other exception leaves the generator and reaches the consumer
propagate ==
    /\ pc = "unwind"
    /\ ~Caught(exc)
    /\ pc' = "raised"
    /\ consumer' = "failed"
    /\ UNCHANGED <<schemas, compiler, target_type, warehouse, mi, ci, ei, sql, handle,
                   cursor, result, num_rows, exc, trace, yielded>>
    /\ UNCHANGED <<runs, sqlvars>>

Next ==
    \/ ConsumerNext
    \/ ConsumerStop
    \/ NextModel
    \/ NextConstraint
    \/ validate_schema_constraint
    \/ validate_not_null
    \/ validate_unique
    \/ validate_relationships
    \/ get_target
    \/ get_handle
    \/ open_cursor
    \/ execute
    \/ fetchone
    \/ check_result
    \/ exit_cursor
    \/ exit_handle
    \/ yield_model
    \/ catch
    \/ propagate

Spec == Init /\ [][Next]_vars

\* ------------------------------------------------------------- progress
\* the interpreter runs the generator on: a step that can be taken is taken, every
\* call into the compiler and the warehouse returning, and the consumer, when the
\* generator is suspended, either asks for the next item or stops
Fairness == WF_vars(Next)

SpecFair == Spec /\ Fairness

\* ------------------------------------------------------------- a second run
\* test() called again after the generator of the first call ended, by exhaustion or
\* by an exception: project_schemas reads the same snapshot, the compiler and the
\* warehouse are as they were, and a new generator starts at the top of
\* validate_schema. What the first call printed, yielded and raised is kept aside.
test ==
    /\ pc \in {"finished", "raised"}
    /\ runs = <<>>
    /\ runs' = <<[trace |-> trace, yielded |-> yielded, exc |-> exc]>>
    /\ pc' = "start"
    /\ consumer' = "idle"
    /\ mi' = 1 /\ ci' = 1 /\ ei' = 1
    /\ sql' = NoSql
    /\ result' = NoRow
    /\ num_rows' = 0
    /\ exc' = NoExc
    /\ trace' = <<>>
    /\ yielded' = <<>>
    /\ UNCHANGED <<schemas, compiler, target_type, warehouse, handle, cursor>>
    /\ UNCHANGED sqlvars

NextTwice == Next \/ test

SpecTwice == Init /\ [][NextTwice]_vars

\* ------------------------------------------------------------- the SQL statements
\* a column holds NULL or one of the values 1..MaxVal
NULL == 0
Values == 0..MaxVal
Columns == UNION { [1..n -> Values] : n \in 0..MaxRows }

\* the model the statements are built for, and the reference it declares
\* ({from: id, to: customers, field: key})
SqlModel == ModelIdents[1]
SqlReference == [from |-> FieldNames[1], to |-> RefTable, field |-> RefField]
OwnColumn == <<SqlModel[2], SqlReference.from>>
RefColumn == <<SqlReference.to, SqlReference.field>>

\* SQL's three-valued logic: "T", "F" and "U" (unknown)
SqlEq(a, b) == IF a = NULL \/ b = NULL THEN "U" ELSE IF a = b THEN "T" ELSE "F"
SqlNot(p) == IF p = "T" THEN "F" ELSE IF p = "F" THEN "T" ELSE "U"
SqlAnd(p, q) == IF p = "F" \/ q = "F" THEN "F" ELSE IF p = "T" /\ q = "T" THEN "T" ELSE "U"
\* x in (select id from rows): true on a match, unknown if only a NULL comparison
\* stands in the way, false otherwise
SqlIn(x, rows) ==
    IF \E j \in DOMAIN rows : SqlEq(x, rows[j]) = "T" THEN "T"
    ELSE IF \E j \in DOMAIN rows : SqlEq(x, rows[j]) = "U" THEN "U"
    ELSE "F"
SqlIsNull(x) == IF x = NULL THEN "T" ELSE "F"

\* select count(*) ... where cond: the rows whose condition, given row by row, is true
CountWhere(conds) == Cardinality({i \in DOMAIN conds : conds[i] = "T"})

RECURSIVE GroupBy(_)
\* group by f: the size of each group, NULLs forming one group
GroupBy(rows) ==
    IF rows = <<>> THEN [v \in {} |-> 0]
    ELSE LET rest == GroupBy(Tail(rows))
             v == Head(rows)
         IN  IF v \in DOMAIN rest THEN [rest EXCEPT ![v] = @ + 1] ELSE rest @@ (v :> 1)

\* QUERY_VALIDATE_NOT_NULL: select count(*) from validation where f is null
EvalNotNull(f) == CountWhere([i \in DOMAIN f |-> SqlIsNull(f[i])])

\* the statement without its grouping subquery: every row of a duplicated value counts
EvalUnique_rows(f) ==
    LET groups == GroupBy(f)
    IN  Cardinality({i \in DOMAIN f : groups[f[i]] > 1})

\* QUERY_VALIDATE_UNIQUE: the number of rows of
\* (select f from validation group by f having count(*) > 1)
EvalUnique(f) ==
    LET groups == GroupBy(f)
    IN  Cardinality({v \in DOMAIN groups : groups[v] > 1})

\* QUERY_VALIDATE_REFERENTIAL_INTEGRITY: select count(*) from child
\* where id not in (select id from parent) and id is not null
EvalReferentialIntegrity(parent, child) ==
    LET cond(id) == SqlAnd(SqlNot(SqlIn(id, parent)), SqlNot(SqlIsNull(id)))
    IN  CountWhere([i \in DOMAIN child |-> cond(child[i])])

\* the column a statement's table and field slots name
ColumnOf(table, field) == db[<<table, field>>]

\* the warehouse evaluating the statement text make_query produced
EvalStatement(stmt) ==
    IF stmt[1] = QUERY_VALIDATE_REFERENTIAL_INTEGRITY
    THEN EvalReferentialIntegrity(ColumnOf(stmt[4], stmt[2]), ColumnOf(stmt[7], stmt[5]))
    ELSE IF stmt[1] = QUERY_VALIDATE_UNIQUE
    THEN EvalUnique(ColumnOf(stmt[4], stmt[2]))
    ELSE EvalNotNull(ColumnOf(stmt[4], stmt[2]))

InitSQL ==
    /\ db \in [{OwnColumn, RefColumn} -> Columns]
    /\ sql_op = "none"
    /\ sql_result = 0
    /\ schemas = <<>> /\ compiler = <<>> /\ target_type = "redshift"
    /\ warehouse = <<>>
    /\ pc = "start" /\ consumer = "idle"
    /\ mi = 1 /\ ci = 1 /\ ei = 1
    /\ sql = NoSql
    /\ handle = FALSE /\ cursor = FALSE
    /\ result = NoRow /\ num_rows = 0
    /\ exc = NoExc
    /\ trace = <<>> /\ yielded = <<>>
    /\ runs = <<>>

\* one check with its statement evaluated over db: the statement the handler builds
\* for `entry` of SqlModel, and the scalar the warehouse computes for it
SqlCheck(query, params) ==
    /\ sql_op' = query
    /\ sql_result' = EvalStatement(make_query(query, params))
    /\ UNCHANGED db
    /\ UNCHANGED <<runvars, runs>>

\* validate_not_null on the field SqlReference.from of SqlModel
SqlNotNull ==
    SqlCheck(QUERY_VALIDATE_NOT_NULL, get_query_params(SqlModel[2], SqlReference.from))

\* validate_unique on the same field
SqlUnique ==
    SqlCheck(QUERY_VALIDATE_UNIQUE, get_query_params(SqlModel[2], SqlReference.from))

\* validate_relationships on SqlReference
SqlRelationships ==
    SqlCheck(QUERY_VALIDATE_REFERENTIAL_INTEGRITY,
             relationships_params(SqlModel[2], SqlReference))

NextSQL == SqlNotNull \/ SqlUnique \/ SqlRelationships

SpecSQL == InitSQL /\ [][NextSQL]_vars

\* ------------------------------------------------------------- helpers of the claims
RECURSIVE PairsFrom(_)
\* the (model, constraint-type) pairs of the enabled models from position m on, in
\* iteration order
PairsFrom(m) ==
    IF m > Len(schemas) THEN <<>>
    ELSE (IF compiler[m] THEN [c \in 1..Len(schemas[m].constraints) |-> <<m, c>>] ELSE <<>>)
         \o PairsFrom(m + 1)

Pairs == PairsFrom(1)

\* the try block of the pair has been left: by the yield having handed the model
\* over, or by the except clause
Done(p) ==
    \/ p[1] < mi
    \/ /\ p[1] = mi
       /\ pc # "model"
       /\ \/ p[2] < ci
          \/ p[2] = ci /\ pc = "suspended"

\* the dispatch of the pair returns without an exception: the tag has a handler, the
\* target exists and every entry's statement gave a row of one column, whatever the
\* count in it
Succeeds(p) ==
    LET c == schemas[p[1]].constraints[p[2]]
    IN  /\ c.type \in constraint_map
        /\ target_type = "redshift"
        /\ \A e \in DOMAIN c.data :
             LET stmt == EntrySql(schemas[p[1]].model, c.type, c.data[e])
             IN  /\ stmt \in DOMAIN warehouse
                 /\ warehouse[stmt].kind = "row"
                 /\ warehouse[stmt].ncols = 1

DoneAndSucceeded(p) == Done(p) /\ Succeeds(p)

\* the events of one kind about one pair
EventsOfPair(ev, p) ==
    {k \in DOMAIN trace : /\ trace[k].ev = ev
                          /\ trace[k].model = schemas[p[1]].model
                          /\ trace[k].ci = p[2]}

\* an enabled model declares an unrecognized tag
UnrecognizedPairs ==
    {k \in DOMAIN Pairs : schemas[Pairs[k][1]].constraints[Pairs[k][2]].type \notin constraint_map}

\* ------------------------------------------------------------- claims
\* C1: an exception raised by cursor.execute, whatever its class, never leaves the
\* generator: it is not what the consumer receives.
C1_ExecuteErrorNeverPropagates ==
    ~(pc = "raised" /\ exc.text = "statement failed")

\* C2: an unrecognized constraint-type tag raises an error for its own (model,
\* constraint-type) pair and nothing more: the error names the model, it is caught
\* and printed, the loop goes on with the next constraint-type of the same model, it
\* never reaches the consumer, and a run that ends normally has dispatched every
\* declared constraint-type of every enabled model exactly once.
C2_UnrecognizedTagIsolated ==
    /\ [][(pc = "dispatch" /\ CurType \notin constraint_map) =>
            (pc' = "unwind" /\ exc'.text = "Invalid constraint"
             /\ exc'.msg_model = CurModel)]_vars
    /\ [][(pc = "unwind" /\ exc.text = "Invalid constraint") =>
            (/\ pc' = "constraint" /\ mi' = mi /\ ci' = ci + 1
             /\ exc' = NoExc
             /\ yielded' = yielded
             /\ trace' = Append(trace, Event("print", "ERRROR", CurModel, ci, 0, 0, exc)))]_vars
    /\ [](pc = "raised" => exc.text # "Invalid constraint")
    /\ []((pc = "finished" /\ UnrecognizedPairs # {}) =>
            \A k \in DOMAIN Pairs : Cardinality(EventsOfPair("dispatch", Pairs[k])) = 1)

\* C2 witness: a finished run in which an enabled model declared an unrecognized tag
\* first and a handled one after it, both dispatched, the second one yielded.
C2_Witness ==
    /\ pc = "finished"
    /\ \E m \in DOMAIN schemas :
         /\ compiler[m]
         /\ Len(schemas[m].constraints) = 2
         /\ schemas[m].constraints[1].type \notin constraint_map
         /\ EventsOfPair("dispatch", <<m, 1>>) # {}
         /\ EventsOfPair("dispatch", <<m, 2>>) # {}
         /\ yielded = <<schemas[m].model>>

\* C3: the items handed to the consumer are exactly the models of the pairs whose
\* try block has been left and whose dispatch returned without an exception, in
\* iteration order, one item per pair, whatever the violation counts.
C3_YieldPerSuccessfulDispatch ==
    LET ok == SelectSeq(Pairs, DoneAndSucceeded)
    IN  yielded = [k \in DOMAIN ok |-> schemas[ok[k][1]].model]

\* C3 witness: a finished run that yielded the same model twice, once per
\* constraint-type, one of them having reported violations.
C3_Witness ==
    /\ pc = "finished"
    /\ Len(yielded) = 2
    /\ yielded[1] = yielded[2]
    /\ \E k \in DOMAIN trace : trace[k].text = "FAILED"

\* C4: a model the compiler reports as not enabled is never dispatched, has no
\* statement executed, no line printed and no item yielded; the only event about it is
\* the query of its configuration.
C4_DisabledModelUntouched ==
    \A m \in DOMAIN schemas :
        ~compiler[m] =>
            /\ \A k \in DOMAIN trace :
                 trace[k].model = schemas[m].model => trace[k].ev = "get_model_config"
            /\ \A k \in DOMAIN yielded : yielded[k] # schemas[m].model

\* C4 witness: a finished run over a disabled model that declares an unrecognized tag
\* and an enabled model that was yielded.
C4_Witness ==
    /\ pc = "finished"
    /\ \E m \in DOMAIN schemas :
         /\ ~compiler[m]
         /\ \E c \in DOMAIN schemas[m].constraints :
              schemas[m].constraints[c].type \notin constraint_map
         /\ \E k \in DOMAIN trace :
              trace[k].ev = "get_model_config" /\ trace[k].model = schemas[m].model
    /\ yielded # <<>>

\* the values of column a that are non-null and missing from column b
Orphans(a, b) ==
    Cardinality({i \in DOMAIN a : a[i] # NULL /\ \A j \in DOMAIN b : b[j] # a[i]})

\* C5: the relationships check of reference {from, to, field} on model M counts the
\* non-null values of M's `from` column that are missing from `to`'s `field` column.
C5_DeclaringModelIsChecked ==
    sql_op = QUERY_VALIDATE_REFERENTIAL_INTEGRITY =>
        sql_result = Orphans(db[OwnColumn], db[RefColumn])

\* C6: the referential-integrity statement returns the number of child rows that are
\* non-null and do not appear among the parent values, nulls among the parent values
\* included (child and parent being the columns the statement's slots name).
C6_OrphanCount ==
    sql_op = QUERY_VALIDATE_REFERENTIAL_INTEGRITY =>
        LET stmt == make_query(QUERY_VALIDATE_REFERENTIAL_INTEGRITY,
                               relationships_params(SqlModel[2], SqlReference))
        IN  sql_result = Orphans(ColumnOf(stmt[7], stmt[5]), ColumnOf(stmt[4], stmt[2]))

\* C7: the uniqueness statement returns the number of distinct values of the field
\* that occur in more than one row (NULL counting as a value like any other), not the
\* number of duplicated rows.
C7_DuplicateGroups ==
    sql_op = QUERY_VALIDATE_UNIQUE =>
        sql_result = Cardinality({v \in Values :
                        \E i, j \in DOMAIN db[OwnColumn] :
                            i # j /\ db[OwnColumn][i] = v /\ db[OwnColumn][j] = v})

\* C7 witness: the column {1, 1, 2} checked: three rows, two of them duplicates, one
\* duplicate group.
C7_Witness ==
    /\ sql_op = QUERY_VALIDATE_UNIQUE
    /\ db[OwnColumn] = <<1, 1, 2>>
    /\ sql_result = 1

\* C8: with a target type other than redshift no statement is executed and no check
\* outcome is printed, and the unsupported-target error is never taken by the except
\* clause: no ERRROR line reports it.
C8_UnsupportedTargetIsFatal ==
    target_type # "redshift" =>
        /\ \A k \in DOMAIN trace : trace[k].ev # "execute"
        /\ \A k \in DOMAIN trace : trace[k].text \notin {"OK", "FAILED"}
        /\ \A k \in DOMAIN trace : trace[k].err.type # "NotImplementedError"


\* C9: outside the with blocks of execute_query neither a handle nor a cursor is
\* held: whichever way the call ended, both have been released.
C9_ScopedResourcesReleased ==
    /\ cursor => pc \in {"execute", "fetchone", "check_result", "exit_cursor"}
    /\ handle => pc \in {"cursor", "execute", "fetchone", "check_result", "exit_cursor",
                         "exit_handle"}

\* C9 witness: two calls of execute_query have ended, the first by returning its
\* scalar and the second by an exception raised under the cursor, and nothing is
\* held.
C9_Witness ==
    /\ pc = "unwind"
    /\ exc.text \in {"statement failed", "fetch failed", "Unexpected validation result"}
    /\ \E k \in DOMAIN trace : trace[k].text = "OK"
    /\ ~handle /\ ~cursor

\* C10: a result that is not exactly one scalar (no row, or a row of zero or several
\* columns) never ends the run: the exception it raises does not reach the consumer.
C10_ShapeViolationRecoverable ==
    (pc = "raised" /\ sql \in DOMAIN warehouse) =>
        ~(\/ warehouse[sql].kind = "no_row"
          \/ warehouse[sql].kind = "row" /\ warehouse[sql].ncols # 1)

\* the pairs of enabled models that come after the current one in iteration order
PairsAhead ==
    {k \in DOMAIN Pairs : \/ Pairs[k][1] > mi
                          \/ Pairs[k][1] = mi /\ Pairs[k][2] > ci}

\* C11: an exception that is not a RuntimeError, the connection failure of get_handle
\* among them, is never taken by the except clause of validate_schema: it reaches the
\* consumer unchanged, nothing is printed or yielded on its way, and the generator
\* takes no step after it, so that no later constraint-type or model is dispatched.
C11_FatalErrorPropagates ==
    /\ [][(pc = "unwind" /\ exc.type \notin RuntimeErrorClasses) =>
            (/\ pc' = "raised" /\ consumer' = "failed"
             /\ exc' = exc /\ trace' = trace /\ yielded' = yielded)]_vars
    /\ [][pc # "raised"]_vars
    /\ [](exc.text = "could not connect" => pc \in {"unwind", "raised"})
    /\ [](\A k \in DOMAIN trace : trace[k].err.text # "could not connect")

\* C11 witness: the connection failed on a check, it reached the consumer, and pairs
\* of enabled models that were never dispatched remain.
C11_Witness ==
    /\ pc = "raised"
    /\ consumer = "failed"
    /\ exc.text = "could not connect"
    /\ PairsAhead # {}
    /\ \A k \in PairsAhead : EventsOfPair("dispatch", Pairs[k]) = {}

\* the lines a handler prints before it executes an entry's statement
Headers == {"VALIDATE NOT NULL", "VALIDATE UNIQUE", "VALIDATE REFERENTIAL INTEGRITY"}

\* the events of one kind about entry e of the pair p
EventsOfEntry(ev, p, e) == {k \in EventsOfPair(ev, p) : trace[k].ei = e}

\* C12: once the handler invocation of a pair is over, every entry of the payload has
\* been taken up (its VALIDATE line printed), whatever happened to the entries before
\* it, an execution error included.
C12_EveryEntryChecked ==
    \A k \in DOMAIN Pairs :
        LET p == Pairs[k]
            c == schemas[p[1]].constraints[p[2]]
        IN  (Done(p) /\ c.type \in constraint_map /\ target_type = "redshift") =>
                \A e \in DOMAIN c.data :
                    \E j \in EventsOfEntry("print", p, e) : trace[j].text \in Headers

\* the position in the snapshot of the model an event is about
ModelIndex(model) == CHOOSE m \in DOMAIN schemas : schemas[m].model = model

\* the statement of the check an event is about
StatementOf(event) ==
    LET c == schemas[ModelIndex(event.model)].constraints[event.ci]
    IN  EntrySql(event.model, c.type, c.data[event.ei])

\* the execution of the statement returned exactly one scalar
OneScalar(stmt) ==
    /\ stmt \in DOMAIN warehouse
    /\ warehouse[stmt].kind = "row"
    /\ warehouse[stmt].ncols = 1

\* C13: an OK line is printed for a check exactly when the execution of its statement
\* returned one scalar equal to 0, a FAILED line carrying the count exactly when it
\* returned one scalar greater than 0; a check whose execution raised or returned
\* another shape has neither line. The outcome line follows the execution directly.
C13_PassIffZero ==
    /\ \A k \in DOMAIN trace :
         trace[k].text \in {"OK", "FAILED"} =>
            LET stmt == StatementOf(trace[k])
            IN  /\ OneScalar(stmt)
                /\ trace[k].text = "OK" <=> warehouse[stmt].count = 0
                /\ trace[k].text = "FAILED" =>
                     trace[k].count = warehouse[stmt].count /\ trace[k].count > 0
                /\ k > 1 /\ trace[k - 1].ev = "execute"
                /\ trace[k - 1].model = trace[k].model
                /\ trace[k - 1].ci = trace[k].ci /\ trace[k - 1].ei = trace[k].ei
    /\ \A k \in DOMAIN trace :
         (trace[k].ev = "execute" /\ OneScalar(StatementOf(trace[k]))) =>
            IF k = Len(trace)
            THEN pc \in {"fetchone", "check_result", "exit_cursor", "exit_handle", "report"}
            ELSE trace[k + 1].text \in {"OK", "FAILED"}

\* C13 witness: a finished run of two checks: one returned the scalar 0 and passed,
\* the other returned a row of another width and got no outcome line.
C13_Witness ==
    /\ pc = "finished"
    /\ Cardinality({k \in DOMAIN trace : trace[k].ev = "execute"}) = 2
    /\ Cardinality({k \in DOMAIN trace : trace[k].text \in {"OK", "FAILED"}}) = 1
    /\ \E k \in DOMAIN trace : trace[k].text = "OK"
    /\ \E k \in DOMAIN trace : trace[k].text = "RESULT"

\* the place of an event in the declared order: its model's position in the snapshot,
\* its constraint-type's position in the model's declaration, its entry's position
\* in the payload (the ERRROR line and the yield of a pair come after every entry),
\* and its step within the check
OrderKey(event) ==
    LET m == ModelIndex(event.model)
        last == event.ev = "yield" \/ event.text = "ERRROR"
        e == IF last THEN Len(schemas[m].constraints[event.ci].data) + 1 ELSE event.ei
        step == IF event.text \in Headers THEN 1
                ELSE IF event.ev = "execute" THEN 2
                ELSE IF event.text = "SQL" THEN 3
                ELSE IF event.text = "RESULT" THEN 4
                ELSE IF event.text \in {"OK", "FAILED"} THEN 5
                ELSE 0
    IN  <<m, event.ci, e, step>>

\* lexicographic order of two keys
Before(a, b) ==
    \E i \in 1..4 : a[i] < b[i] /\ \A j \in 1..(i - 1) : a[j] = b[j]

\* C14: the events of a run come in the declared order: models in snapshot order,
\* constraint-types in the order of the model's declaration, entries in payload
\* order; within a check the VALIDATE line, the execution and the outcome line follow
\* one another, so that the report of a check precedes the execution of the next one;
\* the yield of a pair comes after every report of its checks.
C14_DeclaredOrder ==
    \A k \in DOMAIN trace :
        k > 1 => Before(OrderKey(trace[k - 1]), OrderKey(trace[k]))

\* C14 witness: a finished run over two models, the first one yielded after both
\* entries of its payload were executed and reported, the second one queried after.
C14_Witness ==
    /\ pc = "finished"
    /\ Len(schemas) = 2
    /\ Len(yielded) = 1
    /\ Cardinality({k \in DOMAIN trace : trace[k].text \in {"OK", "FAILED"}}) = 2
    /\ trace[Len(trace)].ev = "get_model_config"

\* s is an initial part of t
IsPrefix(s, t) ==
    /\ Len(s) <= Len(t)
    /\ \A k \in DOMAIN s : s[k] = t[k]

C16_CaughtErrorNamesModel ==
    target_type = "redshift" =>
        \A k \in DOMAIN trace :
            trace[k].text = "ERRROR" =>
                \/ trace[k].err.model = trace[k].model
                \/ trace[k].err.msg_model = trace[k].model

\* the pair comes before the current one and its dispatch returned
EarlierAndSucceeded(p) ==
    /\ p[1] < mi \/ (p[1] = mi /\ p[2] < ci)
    /\ Succeeds(p)

\* C17: when an exception reaches the consumer and ends the run, nothing of what was
\* done before is withheld: every statement executed before that returned one scalar
\* has its outcome line printed, with its count, and the model of every earlier pair
\* whose dispatch returned has been handed to the consumer, in order.
C17_ProgressiveEmission ==
    pc = "raised" =>
        LET ok == SelectSeq(Pairs, EarlierAndSucceeded)
        IN  /\ yielded = [k \in DOMAIN ok |-> schemas[ok[k][1]].model]
            /\ \A k \in DOMAIN trace :
                 (trace[k].ev = "execute" /\ OneScalar(StatementOf(trace[k]))) =>
                    /\ k < Len(trace)
                    /\ trace[k + 1].ev = "print"
                    /\ trace[k + 1].ei = trace[k].ei
                    /\ trace[k + 1].text =
                         IF warehouse[StatementOf(trace[k])].count = 0 THEN "OK" ELSE "FAILED"
                    /\ trace[k + 1].count = warehouse[StatementOf(trace[k])].count

\* C17 witness: the run ended by an exception after a check had reported violations
\* and its model had been handed over.
C17_Witness ==
    /\ pc = "raised"
    /\ Len(yielded) = 1
    /\ \E k \in DOMAIN trace : trace[k].text = "FAILED" /\ trace[k].count = MaxCount

\* C18: the generator works only while the consumer is waiting for an item. Before
\* the first item is asked for nothing has happened: no compiler query, no dispatch,
\* no check. While the consumer holds k items and asks for no more, the last thing
\* that happened is the yield of the k-th item: no constraint-type after the one that
\* produced it has been dispatched, and no step of the generator changes that.
C18_Lazy ==
    /\ [](consumer \in {"idle", "stopped"} =>
            \/ pc = "start" /\ trace = <<>> /\ yielded = <<>> /\ warehouse = <<>>
            \/ /\ pc = "suspended"
               /\ trace # <<>>
               /\ trace[Len(trace)].ev = "yield"
               /\ trace[Len(trace)].model = yielded[Len(yielded)]
               /\ Cardinality({k \in DOMAIN trace : trace[k].ev = "yield"}) = Len(yielded)
               /\ \A k \in PairsAhead : EventsOfPair("dispatch", Pairs[k]) = {})
    /\ [][(consumer \in {"idle", "stopped"} /\ consumer' \in {"idle", "stopped"}) =>
            (trace' = trace /\ yielded' = yielded /\ warehouse' = warehouse /\ pc' = pc)]_vars

\* C18 witness: the consumer took one item and stopped, with a pair of an enabled
\* model still ahead, never dispatched.
C18_Witness ==
    /\ consumer = "stopped"
    /\ Len(yielded) = 1
    /\ PairsAhead # {}

\* C19: a handle is asked for only when none is held and a cursor only when none is
\* held, under the handle of the same check, so that there is never more than one of
\* each and every check acquires its own; while the generator is not running (not
\* started, suspended at a yield, abandoned by its consumer, exhausted or ended by an
\* exception) no handle and no cursor is held.
C19_OneConnectionPerCheck ==
    /\ pc = "get_handle" => ~handle /\ ~cursor
    /\ pc = "cursor" => handle /\ ~cursor
    /\ cursor => handle
    /\ consumer # "waiting" => ~handle /\ ~cursor
    /\ pc \in {"validator", "report", "yield", "dispatch", "constraint", "model"} =>
         ~handle /\ ~cursor

\* C19 witness: the consumer abandoned the run after an item whose dispatch executed
\* two checks, each under a handle and cursor of its own, and nothing is left open.
C19_Witness ==
    /\ consumer = "stopped"
    /\ pc = "suspended"
    /\ Cardinality({k \in DOMAIN trace : trace[k].ev = "execute"}) = 2
    /\ ~handle /\ ~cursor

\* the queries of the compiler about the model at position m
ConfigQueries(m) ==
    {k \in DOMAIN trace : trace[k].ev = "get_model_config" /\ trace[k].model = schemas[m].model}

\* C20: over every snapshot a run ends: consumed to the end with only errors the
\* except clause takes, it reaches the end of the loops. At that end every
\* constraint-type of every enabled model has been dispatched exactly once and the
\* compiler has been asked exactly once about every model, enabled or not; at any
\* moment nothing is dispatched or asked twice, and the dispatches of a model come
\* after the query about it.
C20_TerminatesDispatchingOnce ==
    /\ <>(pc = "finished" \/ pc = "raised" \/ consumer = "stopped")
    /\ [](pc = "raised" => ~Caught(exc))
    /\ [](pc = "finished" =>
            /\ consumer = "done"
            /\ \A k \in DOMAIN Pairs : Cardinality(EventsOfPair("dispatch", Pairs[k])) = 1
            /\ \A m \in DOMAIN schemas : Cardinality(ConfigQueries(m)) = 1)
    /\ [](/\ \A k \in DOMAIN Pairs : Cardinality(EventsOfPair("dispatch", Pairs[k])) <= 1
          /\ \A m \in DOMAIN schemas : Cardinality(ConfigQueries(m)) <= 1
          /\ \A k \in DOMAIN trace :
               trace[k].ev = "dispatch" =>
                  \E j \in ConfigQueries(ModelIndex(trace[k].model)) : j < k)

\* C20 witness: a run over two models, one of them disabled, consumed to the end,
\* with an error taken by the except clause on the way and an item yielded.
C20_Witness ==
    /\ pc = "finished"
    /\ Len(schemas) = 2
    /\ \E m \in DOMAIN schemas : ~compiler[m]
    /\ \E m \in DOMAIN schemas : compiler[m] /\ Len(schemas[m].constraints) = 2
    /\ \E k \in DOMAIN trace : trace[k].text = "ERRROR"
    /\ yielded # <<>>
====
